---- MODULE Spec2Model ----
(***************************************************************************)
(* Sidecar lifecycle of the ALMReady Tauri shell (src-tauri/src/lib.rs).   *)
(*                                                                         *)
(* Four concurrent activities are modelled:                                *)
(*   - the setup task spawned in run() (lib.rs 163-222),                   *)
(*   - the stdout reader task started by spawn_sidecar (lib.rs 111-128),   *)
(*   - the on_window_event handler for CloseRequested (lib.rs 226-241),    *)
(*   - the sidecar child process itself (prints lines, closes its stdout,  *)
(*     exits), which is the environment.                                   *)
(* The shared state is BackendProcess, a Mutex<Option<Child>> (lib.rs 40). *)
(* The MutexGuard made in the scrutinee of each `if let ... .take()` lives *)
(* until the end of that `if let`, so kill() and wait() run with the mutex *)
(* held; the variable lock models that.                                    *)
(***************************************************************************)
EXTENDS Integers, Sequences, FiniteSets, TLC

\* ---------------------------------------------------------------- bounds

\* How many lines the sidecar prints on stdout at most.
MaxLines == 2

\* How many CloseRequested events the event loop delivers at most.
MaxCloses == 2

\* ------------------------------------------------------ program constants

\* for _ in 0..60u32 (lib.rs 50)
MAX_ATTEMPTS == 60

\* u16::MAX, the range of parse::<u16>() (lib.rs 116)
U16_MAX == 65535

\* the sentinel `0u16` (lib.rs 122) and unwrap_or(0) (lib.rs 125, 182)
SENTINEL == 0

\* std::process::exit(1) (lib.rs 197, 215)
EXIT_FATAL == 1

\* ------------------------------------------------------------- the lines

PORT_PREFIX == <<"P", "O", "R", "T", ":">>

DigitChars == {"0", "1", "2", "3", "4", "5", "6", "7", "8", "9"}

DigitVal(c) ==
  CASE c = "0" -> 0 [] c = "1" -> 1 [] c = "2" -> 2 [] c = "3" -> 3
    [] c = "4" -> 4 [] c = "5" -> 5 [] c = "6" -> 6 [] c = "7" -> 7
    [] c = "8" -> 8 [] c = "9" -> 9

WhiteChars == {" ", "\t", "\r"}

\* The lines the sidecar may print: each is the text of one line, without
\* its line terminator (BufRead::lines strips it).
Lines ==
  { <<"P", "O", "R", "T", ":", " ", "8", "0", " ">>,
    <<"P", "O", "R", "T", ":", "0">>,
    <<"P", "O", "R", "T", ":", "6", "5", "5", "3", "6">>,
    <<"P", "O", "R", "T", ":", "x">>,
    <<"I", "N", "F", "O">> }

\* Option<&str>: the absent value of strip_prefix.
NoMatch == [some |-> FALSE, rest |-> <<>>]

\* str::strip_prefix(pre)
strip_prefix(line, pre) ==
  IF Len(line) >= Len(pre) /\ SubSeq(line, 1, Len(pre)) = pre
    THEN [some |-> TRUE, rest |-> SubSeq(line, Len(pre) + 1, Len(line))]
    ELSE NoMatch

RECURSIVE trim_start(_)
trim_start(s) ==
  IF s # <<>> /\ Head(s) \in WhiteChars THEN trim_start(Tail(s)) ELSE s

RECURSIVE trim_end(_)
trim_end(s) ==
  IF s # <<>> /\ s[Len(s)] \in WhiteChars
    THEN trim_end(SubSeq(s, 1, Len(s) - 1))
    ELSE s

\* str::trim()
trim(s) == trim_end(trim_start(s))

\* Result<u16, ParseIntError> as an integer: -1 stands for Err.
ParseErr == -1

RECURSIVE parse_digits(_, _)
parse_digits(s, acc) ==
  IF s = <<>> THEN acc
  ELSE IF Head(s) \notin DigitChars THEN ParseErr
  ELSE IF acc * 10 + DigitVal(Head(s)) > U16_MAX THEN ParseErr
  ELSE parse_digits(Tail(s), acc * 10 + DigitVal(Head(s)))

\* str::parse::<u16>(): an optional leading '+', then one or more decimal
\* digits, the value within u16.
parse_u16(s) ==
  LET body == IF s # <<>> /\ Head(s) = "+" THEN Tail(s) ELSE s
  IN  IF body = <<>> THEN ParseErr ELSE parse_digits(body, 0)

\* A scan that returns the sentinel at a PORT: line that fails to parse.
scan_line_strict(line) ==
  LET m == strip_prefix(line, PORT_PREFIX)
  IN  IF ~m.some THEN ParseErr
      ELSE IF parse_u16(trim(m.rest)) = ParseErr THEN SENTINEL
      ELSE parse_u16(trim(m.rest))

\* A scan that takes a line announcing 0 for no announcement and reads on.
scan_line_nonzero(line) ==
  LET m == strip_prefix(line, PORT_PREFIX)
  IN  IF m.some /\ parse_u16(trim(m.rest)) > 0
        THEN parse_u16(trim(m.rest))
        ELSE ParseErr

\* One iteration of the scan loop (lib.rs 114-120): the port to return, or
\* ParseErr when the loop goes on to the next line.
scan_line(line) ==
  LET m == strip_prefix(line, PORT_PREFIX)
  IN  IF m.some THEN parse_u16(trim(m.rest)) ELSE ParseErr

\* What the scan loop does with each line the sidecar may print.
scanned == [line \in Lines |-> scan_line(line)]

\* ------------------------------------------------------------- the state

None == "None"
Some == "Some"

VARIABLES
  pc,            \* position of the setup task (lib.rs 163-222)
  BackendProcess,\* the Option<Child> inside the Mutex (lib.rs 40, 159)
  lock,          \* who holds the Mutex: "free", "setup" or "handler"
  child,         \* the sidecar process: "none", "alive", "zombie", "reaped"
  wopen,         \* the sidecar still holds the write end of its stdout
  pipe,          \* lines written to stdout and not read yet
  printed,       \* number of lines the sidecar has printed
  rpc,           \* position of the reader task: "none", "scan", "send", "done"
  rport,         \* the value the scan closure returned (lib.rs 112-125)
  chan,          \* the oneshot channel: << >> or << value >>
  sends,         \* the values sent over the oneshot channel, in order
  port,          \* the setup task's `port` (lib.rs 182); -1 before rx.await
  attempts,      \* TcpStream::connect calls made by wait_for_backend
  failures,      \* how many of them failed
  probe,         \* result of wait_for_backend: "none", "ok", "fail"
  fatal,         \* which FATAL diagnostic was logged: "none", "handshake", "health"
  window,        \* create_main_window: "none", "created", "failed"
  windowPort,    \* the port injected by create_main_window; -1 if not called
  exited,        \* std::process::exit was called
  exitCode,      \* its status; -1 while running
  hpc,           \* position of the CloseRequested handler: "idle", "kill", "wait"
  closes,        \* CloseRequested events delivered so far
  kills,         \* the actors that called Child::kill, in order
  waits,         \* the actors that called Child::wait, in order
  takers,        \* the actors whose take() returned Some, in order
  noops,         \* handler runs whose take() returned None
  launch,        \* what spawn_sidecar returned: "none", "ok", "err"
  lateClose,     \* a handler run that began after the child was launched has returned
  out,           \* every line the sidecar has printed, in order
  killedWaiting  \* the handler killed the child while the setup task was in rx.await

vars ==
  << pc, BackendProcess, lock, child, wopen, pipe, printed, rpc, rport, chan,
     sends, port, attempts, failures, probe, fatal, window, windowPort,
     exited, exitCode, hpc, closes, kills, waits, takers, noops, launch,
     lateClose, out, killedWaiting >>

setupVars == << pc, launch, port, attempts, failures, probe, fatal, window, windowPort >>
readerVars == << rpc, rport, chan, sends >>
childVars == << child, wopen, pipe, printed, out >>
handlerVars == << hpc, closes, noops, lateClose, killedWaiting >>
killVars == << kills, waits, takers >>
exitVars == << exited, exitCode >>

\* .manage(BackendProcess(Mutex::new(None))) (lib.rs 159); nothing has run.
Init ==
  /\ pc = "spawn"
  /\ BackendProcess = None
  /\ lock = "free"
  /\ child = "none"
  /\ wopen = FALSE
  /\ pipe = <<>>
  /\ printed = 0
  /\ rpc = "none"
  /\ rport = -1
  /\ chan = <<>>
  /\ sends = <<>>
  /\ port = -1
  /\ attempts = 0
  /\ failures = 0
  /\ probe = "none"
  /\ fatal = "none"
  /\ window = "none"
  /\ windowPort = -1
  /\ exited = FALSE
  /\ exitCode = -1
  /\ hpc = "idle"
  /\ closes = 0
  /\ kills = <<>>
  /\ waits = <<>>
  /\ takers = <<>>
  /\ noops = 0
  /\ launch = "none"
  /\ lateClose = FALSE
  /\ out = <<>>
  /\ killedWaiting = FALSE

\* ------------------------------------------------- helpers of the actions

\* A slot that is read and not emptied.
take_peek(slot) == slot

\* Option::take (lib.rs 192, 210, 235): what is left in the slot.
take(slot) == None

\* Child::kill: SIGKILL; an already exited child stays as it is.
kill(c) == IF c = "alive" THEN "zombie" ELSE c

\* Child::wait: reaps the exited child.
wait(c) == IF c = "zombie" THEN "reaped" ELSE c

\* A launch failure handled like the fatal failures.
after_spawn_fatal(ok) == IF ok THEN "store" ELSE "hs_exit"

\* match spawn_sidecar(..) (lib.rs 165-177): where the setup task goes.
after_spawn(ok) == IF ok THEN "store" ELSE "fallback"

\* The sentinel test left out.
is_sentinel_never(p) == FALSE

\* if port == 0 (lib.rs 184)
is_sentinel(p) == p = SENTINEL

\* The probe started whatever value was delivered.
after_handshake_unchecked(p) == "probe"

\* after rx.await (lib.rs 182-200): the handshake-failure path or the probe.
after_handshake(p) == IF is_sentinel(p) THEN "hs_take" ELSE "probe"

\* A loop that runs one iteration short.
budget_exhausted_early(n) == n >= MAX_ATTEMPTS - 1

\* the loop `for _ in 0..60u32` has run out after n attempts (lib.rs 50).
budget_exhausted(n) == n >= MAX_ATTEMPTS

\* The probe's result ignored.
after_probe_ignored(ok) == "window"

\* if !wait_for_backend(port).await (lib.rs 203): where the setup task goes.
after_probe(ok) == IF ok THEN "window" ELSE "ht_take"

\* kill and wait attempted whatever take() returned.
fatal_after_take_always(path, got) ==
  IF path = "hs" THEN "hs_kill" ELSE "ht_kill"

\* `if let Some(mut c) = ...take()` in a fatal path (lib.rs 187-197, 205-215):
\* the body runs only for Some; exit(1) follows in both cases.
fatal_after_take(path, got) ==
  IF got = Some
    THEN (IF path = "hs" THEN "hs_kill" ELSE "ht_kill")
    ELSE (IF path = "hs" THEN "hs_exit" ELSE "ht_exit")

\* The handle taken and dropped, neither killed nor waited for.
handler_after_take_drop(got) == "idle"

\* kill and wait attempted whatever take() returned.
handler_after_take_always(got) == "kill"

\* the same `if let` in the CloseRequested handler (lib.rs 229-239).
handler_after_take(got) == IF got = Some THEN "kill" ELSE "idle"

\* Both fatal paths logging the handshake diagnostic.
reason_of_handshake(path) == "handshake"

\* the FATAL diagnostic a path logs (lib.rs 185, 204).
reason_of(path) == IF path = "hs" THEN "handshake" ELSE "health"

\* A read that never reports the end of the stream.
stream_ended_never(p, w) == FALSE

\* A read that reports the end of the stream whenever no line is buffered.
stream_ended_eager(p, w) == p = <<>>

\* reader.lines() ends (lib.rs 114, 121): nothing is left to read and every
\* write end of the pipe is closed; until then the read blocks.
stream_ended(p, w) == p = <<>> /\ ~w

\* A reader that scans again after it has sent.
after_send_rescan == "scan"

\* after tx.send(port) the reader task ends (lib.rs 127-128).
after_send == "done"

\* A failed window build handled like the fatal failures.
after_window_fatal(ok) == IF ok THEN "done" ELSE "ht_take"

\* after create_main_window, whose build error is only logged (lib.rs 152,
\* 219-220): the setup task ends.
after_window(ok) == "done"

\* ---------------------------------------------------- the sidecar process

\* The sidecar prints one line on its stdout. Once the scan closure has
\* returned, the BufReader (the read end) is dropped and nothing is read: the
\* lines left in pipe then stay unread.
ChildPrint(l) ==
  /\ ~exited
  /\ child = "alive" /\ wopen /\ rpc = "scan"
  /\ printed < MaxLines
  /\ pipe' = Append(pipe, l)
  /\ printed' = printed + 1
  /\ out' = Append(out, l)
  /\ UNCHANGED << child, wopen, BackendProcess, lock >>
  /\ UNCHANGED << setupVars, readerVars, handlerVars, killVars, exitVars >>

\* The sidecar closes its stdout and keeps running.
ChildCloseStdout ==
  /\ ~exited
  /\ child = "alive" /\ wopen
  /\ wopen' = FALSE
  /\ UNCHANGED << child, pipe, printed, out, BackendProcess, lock >>
  /\ UNCHANGED << setupVars, readerVars, handlerVars, killVars, exitVars >>

\* The sidecar exits on its own; it stays a zombie until it is waited for.
ChildExit ==
  /\ ~exited
  /\ child = "alive"
  /\ child' = "zombie"
  /\ wopen' = FALSE
  /\ UNCHANGED << pipe, printed, out, BackendProcess, lock >>
  /\ UNCHANGED << setupVars, readerVars, handlerVars, killVars, exitVars >>

\* ------------------------------------------- the reader task (lib.rs 111-128)

\* for line in reader.lines().flatten(): one line is read and examined.
ReaderLine ==
  /\ ~exited
  /\ rpc = "scan" /\ pipe # <<>>
  /\ LET p == scanned[Head(pipe)]
     IN  IF p # ParseErr
           THEN /\ rport' = p
                /\ rpc' = "send"
                /\ pipe' = Tail(pipe)
           ELSE /\ pipe' = Tail(pipe)
                /\ UNCHANGED << rport, rpc >>
  /\ UNCHANGED << chan, sends, child, wopen, printed, out, BackendProcess, lock >>
  /\ UNCHANGED << setupVars, handlerVars, killVars, exitVars >>

\* The stream ended: the closure returns 0u16 (lib.rs 121-122).
ReaderEof ==
  /\ ~exited
  /\ rpc = "scan" /\ stream_ended(pipe, wopen)
  /\ rport' = SENTINEL
  /\ rpc' = "send"
  /\ UNCHANGED << chan, sends, BackendProcess, lock >>
  /\ UNCHANGED << setupVars, childVars, handlerVars, killVars, exitVars >>

\* let _ = tx.send(port) (lib.rs 127)
ReaderSend ==
  /\ ~exited
  /\ rpc = "send"
  /\ chan' = << rport >>
  /\ sends' = Append(sends, rport)
  /\ rpc' = after_send
  /\ UNCHANGED << rport, BackendProcess, lock >>
  /\ UNCHANGED << setupVars, childVars, handlerVars, killVars, exitVars >>

\* -------------------------------------------- the setup task (lib.rs 163-222)

\* spawn_sidecar returns Err (lib.rs 67-98): resource_dir, app_data_dir or
\* Command::spawn failed, so no process was created; the Err arm only logs.
spawn_sidecar_Err ==
  /\ ~exited
  /\ pc = "spawn"
  /\ launch' = "err"
  /\ pc' = after_spawn(FALSE)
  /\ UNCHANGED << port, attempts, failures, probe, fatal, window, windowPort >>
  /\ UNCHANGED << BackendProcess, lock >>
  /\ UNCHANGED << readerVars, childVars, handlerVars, killVars, exitVars >>

\* spawn_sidecar returns Ok((child, rx)) (lib.rs 90-130): the process runs,
\* its stdout is piped and the reader task is started.
spawn_sidecar_Ok ==
  /\ ~exited
  /\ pc = "spawn"
  /\ launch' = "ok"
  /\ child' = "alive"
  /\ wopen' = TRUE
  /\ rpc' = "scan"
  /\ pc' = after_spawn(TRUE)
  /\ UNCHANGED << port, attempts, failures, probe, fatal, window, windowPort >>
  /\ UNCHANGED << pipe, printed, out, rport, chan, sends, BackendProcess, lock >>
  /\ UNCHANGED << handlerVars, killVars, exitVars >>

\* *app_handle.state::<BackendProcess>().0.lock().unwrap() = Some(child)
\* (lib.rs 179)
StoreHandle ==
  /\ ~exited
  /\ pc = "store" /\ lock = "free"
  /\ BackendProcess' = Some
  /\ pc' = "await"
  /\ UNCHANGED << launch, port, attempts, failures, probe, fatal, window, windowPort >>
  /\ UNCHANGED << lock >>
  /\ UNCHANGED << readerVars, childVars, handlerVars, killVars, exitVars >>

\* let port = rx.await.unwrap_or(0); if port == 0 { eprintln!(FATAL ..) ..
\* (lib.rs 182-185, 200)
AwaitPort ==
  /\ ~exited
  /\ pc = "await" /\ chan # <<>>
  /\ port' = chan[1]
  /\ chan' = <<>>
  /\ pc' = after_handshake(chan[1])
  /\ fatal' = IF after_handshake(chan[1]) = "hs_take" THEN reason_of("hs") ELSE fatal
  /\ UNCHANGED << launch, attempts, failures, probe, window, windowPort >>
  /\ UNCHANGED << rpc, rport, sends, BackendProcess, lock >>
  /\ UNCHANGED << childVars, handlerVars, killVars, exitVars >>

\* One iteration of wait_for_backend's loop (lib.rs 50-56): connect; on
\* success return true; else sleep, and return false after the last one.
ProbeAttempt(connected) ==
  /\ ~exited
  /\ pc = "probe"
  /\ attempts' = attempts + 1
  /\ IF connected
       THEN /\ probe' = "ok"
            /\ pc' = after_probe(TRUE)
            /\ UNCHANGED << failures, fatal >>
       ELSE /\ failures' = failures + 1
            /\ IF budget_exhausted(attempts + 1)
                 THEN /\ probe' = "fail"
                      /\ pc' = after_probe(FALSE)
                      /\ fatal' = IF after_probe(FALSE) = "ht_take"
                                    THEN reason_of("ht") ELSE fatal
                 ELSE UNCHANGED << probe, pc, fatal >>
  /\ UNCHANGED << launch, port, window, windowPort >>
  /\ UNCHANGED << BackendProcess, lock >>
  /\ UNCHANGED << readerVars, childVars, handlerVars, killVars, exitVars >>

\* create_main_window(&app_handle, port).await (lib.rs 135-153, 219): the
\* build may fail, which is only logged.
CreateMainWindow(ok) ==
  /\ ~exited
  /\ pc = "window"
  /\ window' = IF ok THEN "created" ELSE "failed"
  /\ windowPort' = port
  /\ pc' = after_window(ok)
  /\ UNCHANGED << launch, port, attempts, failures, probe, fatal >>
  /\ UNCHANGED << BackendProcess, lock >>
  /\ UNCHANGED << readerVars, childVars, handlerVars, killVars, exitVars >>

\* if let Some(mut c) = ...lock().unwrap().take() (lib.rs 187-193, 205-211)
FatalTake(path) ==
  /\ ~exited
  /\ pc = (IF path = "hs" THEN "hs_take" ELSE "ht_take")
  /\ lock = "free"
  /\ BackendProcess' = take(BackendProcess)
  /\ pc' = fatal_after_take(path, BackendProcess)
  /\ lock' = IF fatal_after_take(path, BackendProcess) \in {"hs_kill", "ht_kill"}
               THEN "setup" ELSE "free"
  /\ takers' = IF BackendProcess = Some THEN Append(takers, "setup") ELSE takers
  /\ UNCHANGED << launch, port, attempts, failures, probe, fatal, window, windowPort >>
  /\ UNCHANGED << kills, waits >>
  /\ UNCHANGED << readerVars, childVars, handlerVars, exitVars >>

\* let _ = c.kill() (lib.rs 194, 212)
FatalKill(path) ==
  /\ ~exited
  /\ pc = (IF path = "hs" THEN "hs_kill" ELSE "ht_kill")
  /\ child' = kill(child)
  /\ wopen' = FALSE
  /\ kills' = Append(kills, "setup")
  /\ pc' = (IF path = "hs" THEN "hs_wait" ELSE "ht_wait")
  /\ UNCHANGED << launch, port, attempts, failures, probe, fatal, window, windowPort >>
  /\ UNCHANGED << pipe, printed, out, waits, takers, BackendProcess, lock >>
  /\ UNCHANGED << readerVars, handlerVars, exitVars >>

\* let _ = c.wait() and the end of the `if let`, where the guard is dropped
\* (lib.rs 195-196, 213-214)
FatalWait(path) ==
  /\ ~exited
  /\ pc = (IF path = "hs" THEN "hs_wait" ELSE "ht_wait")
  /\ child # "alive"
  /\ child' = wait(child)
  /\ waits' = Append(waits, "setup")
  /\ lock' = "free"
  /\ pc' = (IF path = "hs" THEN "hs_exit" ELSE "ht_exit")
  /\ UNCHANGED << launch, port, attempts, failures, probe, fatal, window, windowPort >>
  /\ UNCHANGED << wopen, pipe, printed, out, kills, takers, BackendProcess >>
  /\ UNCHANGED << readerVars, handlerVars, exitVars >>

\* std::process::exit(1) (lib.rs 197, 215)
FatalExit(path) ==
  /\ ~exited
  /\ pc = (IF path = "hs" THEN "hs_exit" ELSE "ht_exit")
  /\ exited' = TRUE
  /\ exitCode' = EXIT_FATAL
  /\ pc' = "exited"
  /\ UNCHANGED << launch, port, attempts, failures, probe, fatal, window, windowPort >>
  /\ UNCHANGED << BackendProcess, lock >>
  /\ UNCHANGED << readerVars, childVars, handlerVars, killVars >>

\* ------------------------- the CloseRequested handler (lib.rs 226-241)

\* if let WindowEvent::CloseRequested = event { if let Some(mut child) =
\* ...lock().unwrap().take() (lib.rs 227-236)
CloseRequested ==
  /\ ~exited
  /\ hpc = "idle" /\ closes < MaxCloses
  /\ lock = "free"
  /\ closes' = closes + 1
  /\ BackendProcess' = take(BackendProcess)
  /\ hpc' = handler_after_take(BackendProcess)
  /\ lock' = IF handler_after_take(BackendProcess) = "idle" THEN "free" ELSE "handler"
  /\ takers' = IF BackendProcess = Some THEN Append(takers, "handler") ELSE takers
  /\ noops' = IF BackendProcess = None THEN noops + 1 ELSE noops
  /\ lateClose' = (lateClose \/ (handler_after_take(BackendProcess) = "idle" /\ child # "none"))
  /\ UNCHANGED << kills, waits, killedWaiting >>
  /\ UNCHANGED << setupVars, readerVars, childVars, exitVars >>

\* let _ = child.kill() (lib.rs 237)
HandlerKill ==
  /\ ~exited
  /\ hpc = "kill"
  /\ child' = kill(child)
  /\ wopen' = FALSE
  /\ kills' = Append(kills, "handler")
  /\ hpc' = "wait"
  /\ killedWaiting' = (killedWaiting \/ (pc = "await" /\ sends = <<>>))
  /\ UNCHANGED << closes, noops, lateClose >>
  /\ UNCHANGED << pipe, printed, out, waits, takers, BackendProcess, lock >>
  /\ UNCHANGED << setupVars, readerVars, exitVars >>

\* let _ = child.wait() and the end of the `if let` (lib.rs 238-239)
HandlerWait ==
  /\ ~exited
  /\ hpc = "wait"
  /\ child # "alive"
  /\ child' = wait(child)
  /\ waits' = Append(waits, "handler")
  /\ lock' = "free"
  /\ hpc' = "idle"
  /\ lateClose' = TRUE
  /\ UNCHANGED << closes, noops, killedWaiting >>
  /\ UNCHANGED << wopen, pipe, printed, out, kills, takers, BackendProcess >>
  /\ UNCHANGED << setupVars, readerVars, exitVars >>

\* ------------------------------------------------------ the specification

HsTake == FatalTake("hs")
HsKill == FatalKill("hs")
HsWait == FatalWait("hs")
HsExit == FatalExit("hs")
HtTake == FatalTake("ht")
HtKill == FatalKill("ht")
HtWait == FatalWait("ht")
HtExit == FatalExit("ht")

\* Nothing runs once std::process::exit was called: every action is guarded
\* by ~exited.
Next ==
  \/ \E l \in Lines : ChildPrint(l)
  \/ ChildCloseStdout
  \/ ChildExit
  \/ ReaderLine
  \/ ReaderEof
  \/ ReaderSend
  \/ spawn_sidecar_Err
  \/ spawn_sidecar_Ok
  \/ StoreHandle
  \/ AwaitPort
  \/ \E connected \in BOOLEAN : ProbeAttempt(connected)
  \/ \E ok \in BOOLEAN : CreateMainWindow(ok)
  \/ HsTake
  \/ HsKill
  \/ HsWait
  \/ HsExit
  \/ HtTake
  \/ HtKill
  \/ HtWait
  \/ HtExit
  \/ CloseRequested
  \/ HandlerKill
  \/ HandlerWait

Spec == Init /\ [][Next]_vars

\* The steps of the setup task and of the handler: the async runtime keeps
\* running a task that can run, and the handler runs to its end once called.
SetupStep ==
  \/ StoreHandle
  \/ AwaitPort
  \/ \E connected \in BOOLEAN : ProbeAttempt(connected)
  \/ \E ok \in BOOLEAN : CreateMainWindow(ok)
  \/ HsTake \/ HsKill \/ HsWait \/ HsExit
  \/ HtTake \/ HtKill \/ HtWait \/ HtExit

HandlerStep == HandlerKill \/ HandlerWait

FairSpec == Spec /\ WF_vars(SetupStep) /\ WF_vars(HandlerStep)

\* The steps of the reader task, which the runtime keeps running as well.
ReaderStep == ReaderLine \/ ReaderEof \/ ReaderSend

LiveSpec == FairSpec /\ WF_vars(ReaderStep)

Range(q) == { q[i] : i \in 1..Len(q) }

HsPcs == {"hs_take", "hs_kill", "hs_wait", "hs_exit"}
HtPcs == {"ht_take", "ht_kill", "ht_wait", "ht_exit"}

\* ---------------------------------------------------------------- claims

\* C1: whenever the supervising process has exited, or a shutdown request
\* that arrived after the launch has been handled, the launched child has
\* been killed and reaped.
C1_NoOrphanAfterShutdown ==
  ((exited \/ lateClose) /\ child # "none") => child = "reaped"

\* C2: over every interleaving of termination events and the two fatal
\* paths, kill is called at most once, take() returns the handle to at most
\* one actor, and only that actor kills and waits.
C2_KillAtMostOnce ==
  /\ Len(takers) <= 1
  /\ Len(kills) <= 1
  /\ Len(waits) <= 1
  /\ Range(kills) \subseteq Range(takers)
  /\ Range(waits) \subseteq Range(kills)

\* Termination was requested twice and a fatal path ran to its exit, with
\* one kill in all.
C2_Witness ==
  /\ closes = 2 /\ hpc = "idle"
  /\ pc = "exited"
  /\ Len(kills) = 1

\* C3, as stated: a fatal-failure path that finds the slot empty does
\* nothing further, so a process whose setup task took no handle never exits
\* through a fatal path.
C3_EmptySlotDoesNothing ==
  (exited /\ fatal # "none") => "setup" \in Range(takers)

\* The step of a fatal path whose take() finds the slot empty.
C3_FatalTakeEmpty ==
  /\ pc \in {"hs_take", "ht_take"}
  /\ pc' # pc
  /\ BackendProcess = None

\* The steps of a fatal path after such a take().
C3_FatalAfterEmpty ==
  /\ pc \in {"hs_exit", "ht_exit"}
  /\ pc' # pc
  /\ "setup" \notin Range(takers)

\* The step of the handler whose take() finds the slot empty.
C3_HandlerTakeEmpty ==
  /\ closes' = closes + 1
  /\ BackendProcess = None

\* C3, amended: the actor that finds the slot empty performs no kill and no
\* wait; the handler then returns, and a fatal path still calls exit(1) and
\* does nothing else.
C3_EmptySlotNoKill ==
  /\ [][C3_FatalTakeEmpty =>
          /\ pc' = (IF pc = "hs_take" THEN "hs_exit" ELSE "ht_exit")
          /\ ~exited'
          /\ UNCHANGED << kills, waits, takers, child, BackendProcess, lock >>]_vars
  /\ [][C3_FatalAfterEmpty =>
          /\ pc' = "exited" /\ exited' /\ exitCode' = EXIT_FATAL
          /\ UNCHANGED << kills, waits, takers, child, BackendProcess, lock,
                          window, windowPort >>]_vars
  /\ [][C3_HandlerTakeEmpty =>
          /\ hpc' = "idle"
          /\ UNCHANGED << kills, waits, takers, child >>]_vars
  /\ []((pc \in {"hs_exit", "ht_exit", "exited"} /\ "setup" \notin Range(takers))
          => "setup" \notin Range(kills) \cup Range(waits))

\* A fatal path ran after the handler had taken the handle: it killed
\* nothing and the process exited.
C3_Witness ==
  /\ pc = "exited"
  /\ takers = << "handler" >>
  /\ kills = << "handler" >>

\* C4: a termination signal handled while the slot holds a handle takes it,
\* kills the child and waits for it, and leaves the slot empty for good, so
\* that no other path takes the handle afterwards.
C4_TerminationTakesKillsReaps ==
  /\ [][(closes' = closes + 1 /\ BackendProcess = Some) =>
          /\ hpc' = "kill"
          /\ BackendProcess' = None
          /\ takers' = Append(takers, "handler")]_vars
  /\ []("handler" \in Range(takers) =>
          /\ BackendProcess = None
          /\ takers = << "handler" >>
          /\ (hpc \in {"kill", "wait"} => lock = "handler")
          /\ (hpc = "wait" => kills = << "handler" >>)
          /\ (hpc = "idle" =>
                /\ kills = << "handler" >>
                /\ waits = << "handler" >>
                /\ child = "reaped"
                /\ lock = "free"))

\* The handler took, killed and reaped, and a fatal path that ran later
\* found nothing to take.
C4_Witness ==
  /\ takers = << "handler" >>
  /\ hpc = "idle"
  /\ child = "reaped"
  /\ pc \in {"hs_exit", "ht_exit"}

\* C5: termination invoked while the slot is empty is a no-op: the handler
\* returns at once, nothing is killed or waited for, and the slot, the lock,
\* the setup task, the reader, the child and the process are left as they
\* were.
C5_TerminationNoop ==
  [][(closes' = closes + 1 /\ BackendProcess = None) =>
       /\ hpc' = "idle"
       /\ noops' = noops + 1
       /\ UNCHANGED << BackendProcess, lock >>
       /\ UNCHANGED << setupVars, readerVars, childVars, killVars, exitVars >>]_vars

\* Termination was invoked a second time after the first one had taken the
\* handle, and ran as a no-op.
C5_Witness ==
  /\ closes = 2
  /\ noops = 1
  /\ takers = << "handler" >>
  /\ hpc = "idle"

\* C6: when spawn_sidecar returns an error the supervisor is in fallback
\* mode and nothing fatal happens: no child, no handle in the slot, no port
\* produced or delivered, no probe, no readiness callback, no exit.
C6_LaunchFailureFallback ==
  launch = "err" =>
    /\ pc = "fallback"
    /\ child = "none"
    /\ BackendProcess = None
    /\ rpc = "none" /\ sends = <<>> /\ chan = <<>> /\ port = -1
    /\ attempts = 0 /\ probe = "none"
    /\ window = "none" /\ windowPort = -1
    /\ fatal = "none"
    /\ kills = <<>> /\ takers = <<>>
    /\ ~exited /\ exitCode = -1

\* The launch failed, and termination was later invoked twice.
C6_Witness ==
  /\ launch = "err"
  /\ pc = "fallback"
  /\ closes = 2
  /\ noops = 2

\* What C7 says of every state: a delivered sentinel leads to the
\* handshake-failure path only, without probe or readiness, and once the
\* process has exited its status is non-zero and the child is reaped, killed
\* once by the actor that took the handle.
C7_SentinelState ==
  port = SENTINEL =>
    /\ sends = << SENTINEL >>
    /\ attempts = 0 /\ probe = "none"
    /\ window = "none" /\ windowPort = -1
    /\ fatal = "handshake"
    /\ pc \in HsPcs \cup {"exited"}
    /\ (pc = "exited" =>
          /\ exited /\ exitCode = EXIT_FATAL /\ exitCode # 0
          /\ child = "reaped"
          /\ Len(kills) = 1 /\ waits = kills /\ kills = takers)
    /\ (pc \in {"hs_exit", "exited"} /\ "handler" \notin Range(takers)
          => kills = << "setup" >> /\ waits = << "setup" >>)

\* C7: when the handshake delivers the sentinel 0 the supervisor never
\* probes and never signals readiness; the child is killed and reaped and
\* the process terminates with a non-zero status.
C7_SentinelIsFatal ==
  /\ []C7_SentinelState
  /\ (port = SENTINEL) ~> (exited /\ exitCode = EXIT_FATAL /\ child = "reaped")

\* The sentinel was delivered and the setup task itself killed and reaped
\* the child before exiting.
C7_Witness ==
  /\ port = SENTINEL
  /\ pc = "exited"
  /\ kills = << "setup" >>
  /\ child = "reaped"

\* What C8 says of every state: a failed probe of a valid port leads to the
\* health-timeout path only, with the health diagnostic, without readiness,
\* and once the process has exited its status is non-zero and the child is
\* reaped, killed once by the actor that took the handle.
C8_TimeoutState ==
  probe = "fail" =>
    /\ port \in 1..U16_MAX
    /\ failures = MAX_ATTEMPTS
    /\ fatal = "health"
    /\ window = "none" /\ windowPort = -1
    /\ pc \in HtPcs \cup {"exited"}
    /\ (pc = "exited" =>
          /\ exited /\ exitCode = EXIT_FATAL /\ exitCode # 0
          /\ child = "reaped"
          /\ Len(kills) = 1 /\ waits = kills /\ kills = takers)
    /\ (pc \in {"ht_exit", "exited"} /\ "handler" \notin Range(takers)
          => kills = << "setup" >> /\ waits = << "setup" >>)

\* C8: when a valid port was announced and the probe exhausts its budget,
\* the supervisor fails with the health-timeout reason, the child is killed
\* and reaped, the process terminates with a non-zero status, and readiness
\* is never signalled.
C8_HealthTimeoutIsFatal ==
  /\ []C8_TimeoutState
  /\ (probe = "fail") ~> (exited /\ exitCode = EXIT_FATAL /\ child = "reaped")

\* The probe failed and the setup task itself killed and reaped the child
\* before exiting.
C8_Witness ==
  /\ probe = "fail"
  /\ pc = "exited"
  /\ fatal = "health"
  /\ kills = << "setup" >>
  /\ child = "reaped"

\* C9: the probe makes at most MAX_ATTEMPTS connection attempts; it returns
\* success at the first attempt that connects, the last one included, and
\* makes no attempt after it has returned; it returns failure exactly when
\* all MAX_ATTEMPTS attempts failed.
C9_ProbeBudget ==
  /\ [](/\ attempts <= MAX_ATTEMPTS
        /\ (probe = "none" => failures = attempts /\ attempts < MAX_ATTEMPTS)
        /\ (probe = "ok" => attempts >= 1 /\ failures = attempts - 1)
        /\ (probe = "fail" <=> failures = MAX_ATTEMPTS)
        /\ (probe # "none" => pc # "probe"))
  /\ [][probe # "none" => UNCHANGED << attempts, failures, probe >>]_vars
  /\ [][(attempts' # attempts /\ failures' = failures) => probe' = "ok"]_vars

\* The probe succeeded on its last attempt.
C9_Witness ==
  /\ probe = "ok"
  /\ attempts = MAX_ATTEMPTS
  /\ failures = MAX_ATTEMPTS - 1

\* C10: the probe starts only after the port was delivered with a
\* non-sentinel value, the readiness callback is invoked only after the
\* probe returned success, and the readiness callback and a fatal-failure
\* path never both occur in one run.
C10_Ordering ==
  /\ (pc = "probe" \/ attempts > 0 \/ probe # "none") =>
       /\ sends # <<>>
       /\ port = sends[1]
       /\ port \in 1..U16_MAX
  /\ (pc = "window" \/ window # "none") => probe = "ok"
  /\ window # "none" =>
       /\ windowPort = port
       /\ fatal = "none"
       /\ ~exited
       /\ "setup" \notin Range(takers)
  /\ fatal # "none" => window = "none"

\* The readiness callback ran after a probe that needed several attempts.
C10_Witness ==
  /\ window = "created"
  /\ attempts > 1
  /\ probe = "ok"

\* Whether a line announces a port: it starts with PORT: and the rest,
\* trimmed, is a u16 (lib.rs 115-116).
Announces(line) ==
  /\ strip_prefix(line, PORT_PREFIX).some
  /\ parse_u16(trim(strip_prefix(line, PORT_PREFIX).rest)) # ParseErr

\* The port such a line announces.
AnnouncedPort(line) == parse_u16(trim(strip_prefix(line, PORT_PREFIX).rest))

\* The lines the reader has read so far: what was printed and is not left
\* in the pipe.
Consumed == SubSeq(out, 1, Len(out) - Len(pipe))

\* C11: whenever the supervisor is Ready (the readiness callback was
\* invoked), exactly one port announcement was delivered, its value is a
\* valid non-sentinel port, and the port handed to the callback is that
\* value.
C11_ReadyPort ==
  window # "none" =>
    /\ Len(sends) = 1
    /\ sends[1] \in 1..U16_MAX
    /\ sends[1] # SENTINEL
    /\ chan = <<>>
    /\ port = sends[1]
    /\ windowPort = sends[1]
    /\ Consumed # <<>>
    /\ Announces(Consumed[Len(Consumed)])
    /\ windowPort = AnnouncedPort(Consumed[Len(Consumed)])

\* The supervisor is Ready with the port the sidecar printed as "PORT: 80 ".
C11_Witness ==
  /\ window = "created"
  /\ windowPort = 80
  /\ sends = << 80 >>

\* C12: a reader produces one value in its lifetime, a port or the sentinel,
\* sends it once over the channel, and the supervisor receives it at most
\* once; the reader never scans again and never sends a second value.
C12_OneValueOnce ==
  /\ [](/\ Len(sends) <= 1
        /\ (rpc \in {"none", "scan"} => rport = -1 /\ sends = <<>>)
        /\ (rpc = "send" => rport \in 0..U16_MAX /\ sends = <<>>)
        /\ (rpc = "done" => rport \in 0..U16_MAX /\ sends = << rport >>)
        /\ (chan # <<>> => chan = sends /\ port = -1)
        /\ (port # -1 => sends = << port >> /\ chan = <<>> /\ rpc = "done"))
  /\ [][(rpc # "none" /\ rpc # "scan") => (rport' = rport /\ rpc' \in {"send", "done"})]_vars
  /\ [][rpc = "done" => (rpc' = "done" /\ sends' = sends)]_vars
  /\ [][port # -1 => (port' = port)]_vars

\* The reader has sent its value and ended, the supervisor has received it,
\* and lines the reader never read are left in the pipe.
C12_Witness ==
  /\ rpc = "done"
  /\ Len(sends) = 1
  /\ port = sends[1]
  /\ pipe # <<>>

\* Whether a line starts with PORT:.
HasPrefix(line) == strip_prefix(line, PORT_PREFIX).some

\* The reader's scan closure has returned.
Returned == rpc = "send" \/ rpc = "done"

\* C13, as stated: the first line read that starts with PORT: ends the scan
\* and decides the result, the announced port if the rest parses and the
\* sentinel if it does not.
C13_FirstPrefixLineDecides ==
  \A i \in 1..Len(Consumed) :
    HasPrefix(Consumed[i]) =>
      /\ i = Len(Consumed)
      /\ Returned
      /\ rport = (IF Announces(Consumed[i])
                    THEN AnnouncedPort(Consumed[i]) ELSE SENTINEL)

\* C13, amended: the first line read that starts with PORT: and whose rest,
\* trimmed, parses as a u16 ends the scan and its port is the result; a
\* PORT: line that fails to parse is skipped like any other line, and the
\* result is the sentinel only when the stream ended without an announcing
\* line.
C13_FirstParsedLineDecides ==
  /\ \A i \in 1..Len(Consumed) :
       Announces(Consumed[i]) =>
         /\ i = Len(Consumed)
         /\ Returned
         /\ rport = AnnouncedPort(Consumed[i])
  /\ (Returned /\ \A i \in 1..Len(Consumed) : ~Announces(Consumed[i])) =>
         /\ rport = SENTINEL
         /\ pipe = <<>>
         /\ ~wopen
  /\ (rpc = "scan") => (\A i \in 1..Len(Consumed) : ~Announces(Consumed[i]))

\* The reader skipped a PORT: line that does not parse and returned the
\* port of the announcing line after it.
C13_Witness ==
  /\ rpc = "done"
  /\ Len(Consumed) = 2
  /\ HasPrefix(Consumed[1]) /\ ~Announces(Consumed[1])
  /\ Announces(Consumed[2])
  /\ rport = AnnouncedPort(Consumed[2])
  /\ rport # SENTINEL

\* No line of a sequence of lines announces a port.
NoAnnounce(q) == \A i \in 1..Len(q) : ~Announces(q[i])

\* The child's stdout is closed and the reader, still scanning, has no
\* announcing line left to read.
StreamEndsUnannounced == rpc = "scan" /\ ~wopen /\ NoAnnounce(pipe)

\* C14: when the child's output ends without a line announcing a port, the
\* reader eventually sends the sentinel, once, and is finished, and the setup
\* task's wait for the port ends with the sentinel.
C14_EndOfStreamSentinel ==
  /\ StreamEndsUnannounced ~>
       (rpc = "done" /\ sends = << SENTINEL >> /\ port = SENTINEL /\ pc # "await")
  /\ [](Len(sends) <= 1)

\* The child printed lines, none announcing a port, and closed its stdout;
\* the reader sent the sentinel and the setup task received it.
C14_Witness ==
  /\ rpc = "done"
  /\ sends = << SENTINEL >>
  /\ port = SENTINEL
  /\ ~wopen
  /\ out # <<>>
  /\ Len(Consumed) = Len(out)
  /\ NoAnnounce(out)

\* The state of the startup sequence that the setup task's position stands
\* for (lib.rs 163-222).
StartupState ==
  CASE pc \in {"spawn", "store"} -> "Launching"
    [] pc = "fallback" -> "FallbackNoSidecar"
    [] pc = "await" -> "AwaitingHandshake"
    [] pc = "probe" -> "Probing"
    [] pc \in {"window", "done"} -> "Ready"
    [] OTHER -> "FatalFailed"

\* The termination handler has taken the handle (lib.rs 229-236).
Terminated == "handler" \in Range(takers)

\* The transitions of the startup sequence.
Transitions ==
  { << "Launching", "FallbackNoSidecar" >>,
    << "Launching", "AwaitingHandshake" >>,
    << "AwaitingHandshake", "FatalFailed" >>,
    << "AwaitingHandshake", "Probing" >>,
    << "Probing", "FatalFailed" >>,
    << "Probing", "Ready" >> }

\* C15: the startup state only moves along the listed transitions, so that
\* no state is revisited and nothing leaves FallbackNoSidecar, FatalFailed or
\* Ready; Terminated is never left; and once Terminated was reached no step
\* of the setup task changes the startup state.
C15_Monotonic ==
  [][ /\ (StartupState' # StartupState
            => << StartupState, StartupState' >> \in Transitions)
      /\ (Terminated => Terminated')
      /\ (Terminated => StartupState' = StartupState) ]_vars

\* C16: a failure to build the main window is logged only: the step that
\* fails leaves the child, the slot and the process alone, and afterwards the
\* setup task is finished without a fatal report, has taken and killed
\* nothing, the process has not exited, and the handle is in the slot unless
\* the termination handler took it.
C16_WindowFailureNotFatal ==
  /\ [](window = "failed" =>
          /\ pc = "done"
          /\ probe = "ok"
          /\ fatal = "none"
          /\ ~exited /\ exitCode = -1
          /\ "setup" \notin Range(takers)
          /\ "setup" \notin Range(kills)
          /\ "setup" \notin Range(waits)
          /\ (takers = <<>> => BackendProcess = Some /\ kills = <<>>))
  /\ [][(window = "none" /\ window' = "failed") =>
          UNCHANGED << BackendProcess, lock, childVars, killVars, exitVars >>]_vars

\* The window build failed and the child is still alive with its handle in
\* the slot.
C16_Witness ==
  /\ window = "failed"
  /\ pc = "done"
  /\ BackendProcess = Some
  /\ child = "alive"
  /\ ~exited

\* C17: the handshake has no timeout. While the reader is scanning, the setup
\* task has not got past awaiting the port: no port, no probe, no readiness,
\* no fatal report, no exit. The reader stops scanning only by reading a line
\* that announces a port or at the end of the stream, so with the child's
\* stdout open and no announcing line it stays blocked; and the setup task
\* stops awaiting only once the reader has sent its value.
C17_NoHandshakeTimeout ==
  /\ [](rpc = "scan" =>
          /\ pc \in {"store", "await"}
          /\ StartupState \in {"Launching", "AwaitingHandshake"}
          /\ port = -1 /\ sends = <<>> /\ chan = <<>>
          /\ attempts = 0 /\ probe = "none"
          /\ fatal = "none" /\ window = "none"
          /\ ~exited)
  /\ [][(rpc = "scan" /\ rpc' # "scan") =>
          \/ (~wopen /\ pipe = <<>>)
          \/ (pipe # <<>> /\ Announces(Head(pipe)))]_vars
  /\ [][(pc = "await" /\ pc' # "await") => (rpc = "done" /\ chan # <<>>)]_vars

\* The child printed its lines, none announcing a port, and keeps its stdout
\* open; the reader has read them all and is blocked, the setup task waits.
C17_Witness ==
  /\ rpc = "scan"
  /\ wopen
  /\ child = "alive"
  /\ pipe = <<>>
  /\ printed = MaxLines
  /\ NoAnnounce(out)
  /\ pc = "await"

\* C18: the main window is created only while the child handle is in the
\* slot, never after the termination handler has taken it.
C18_ReadinessOnlyWithHandle ==
  [][(window = "none" /\ window' # "none") =>
       (BackendProcess = Some /\ ~Terminated)]_vars

\* A line that announces port 0.
AnnouncesZero(line) == Announces(line) /\ AnnouncedPort(line) = 0

\* C19: a line announcing PORT:0 ends the scan with the result 0, whatever
\* the child prints after it, and the setup task that receives this 0 takes
\* the handshake-failure path as for a missing announcement: no probe, no
\* readiness, the handshake diagnostic, and at exit status 1 with the child
\* killed once and reaped.
C19_PortZeroIsSentinel ==
  \A i \in 1..Len(Consumed) :
    AnnouncesZero(Consumed[i]) =>
      /\ i = Len(Consumed)
      /\ Returned
      /\ rport = SENTINEL
      /\ (sends # <<>> => sends = << SENTINEL >>)
      /\ (port # -1 =>
            /\ port = SENTINEL
            /\ pc \in HsPcs \cup {"exited"}
            /\ fatal = "handshake"
            /\ attempts = 0 /\ probe = "none"
            /\ window = "none")
      /\ (exited =>
            /\ exitCode = EXIT_FATAL
            /\ child = "reaped"
            /\ Len(kills) = 1 /\ waits = kills)

\* The child printed PORT:0 and then a line announcing a valid port; the
\* second line was never read and the setup task killed the child and exited.
C19_Witness ==
  /\ Len(out) = 2
  /\ AnnouncesZero(out[1])
  /\ Announces(out[2]) /\ AnnouncedPort(out[2]) \in 1..U16_MAX
  /\ Len(pipe) = 1
  /\ port = SENTINEL
  /\ exited /\ exitCode = EXIT_FATAL
  /\ kills = << "setup" >>

NoValidPort(q) ==
  \A i \in 1..Len(q) : Announces(q[i]) => AnnouncedPort(q[i]) = SENTINEL

\* The handler killed the child while the setup task awaited the port, and
\* the reader is still scanning with no valid port among the unread lines.
KilledBeforeAnnounce == killedWaiting /\ rpc = "scan" /\ NoValidPort(pipe)

====
